---- MODULE Spec2Model ----
(***************************************************************************)
(* Model of src/main.py, the Solana portfolio tracker: one Streamlit       *)
(* script run ("render pass") reads the widgets, looks up the credential,  *)
(* fetches the wallet payload through a TTL memo, normalizes it            *)
(* (extract_portfolio_info), aggregates it and renders metrics, a table    *)
(* and a pie chart.                                                        *)
(*                                                                         *)
(* Money is counted in cents (1 = 0.01 USD), so 0.5 USD is 50 and the      *)
(* chart threshold total * 0.005 is total / 200; arithmetic is exact.      *)
(* JSON scalars are tagged records [k, v]: k is "absent" (key missing),    *)
(* "null" (None), "str" (a non-numeric string) or "num" (v is the number). *)
(***************************************************************************)
EXTENDS Integers, Sequences, FiniteSets, TLC

VARIABLES
    pc,                     \* position of the script run
    wallet_address,         \* line 43: text input
    refresh_button,         \* line 45: TRUE iff "Refresh Data" was clicked for this run
    environ,                \* os.environ["HELIUS_API_KEY"] (NoKey when unset)
    secrets,                \* st.secrets["HELIUS_API_KEY"] (NoKey when unset)
    has_secrets,            \* hasattr(st, "secrets")
    api_key,                \* line 148
    cache,                  \* st.cache_data memo of fetch_wallet_data, by <<wallet, key>>
    now,                    \* wall clock, seconds
    contacted,              \* TRUE iff this run issued the upstream HTTP request
    data,                   \* line 151
    portfolio,              \* line 157
    total_portfolio_value,  \* line 164
    asset_count,            \* line 171: len(df)
    display_rows,           \* line 176: formatted_amount column, in 1/10000 units
    plot_df,                \* lines 196-208: the rows handed to px.pie
    rendered,               \* the widgets the run has shown so far
    exception               \* where the run's uncaught exception was raised ("none" if none)

vars == <<pc, wallet_address, refresh_button, environ, secrets, has_secrets, api_key,
          cache, now, contacted, data, portfolio, total_portfolio_value, asset_count,
          display_rows, plot_df, rendered, exception>>

----------------------------------------------------------------------------
(* Bounds and program constants *)

MaxItems == 2
MaxClock == 450
TickStep == 150

DustThreshold == 50
ChartDivisor == 200
Ttl == 300
NativeDefaultDecimals == 9
AmountScale == 10000

----------------------------------------------------------------------------
(* JSON values *)

Absent == [k |-> "absent", v |-> 0]
Null == [k |-> "null", v |-> 0]
Str == [k |-> "str", v |-> 0]
Num(n) == [k |-> "num", v |-> n]

\* dict.get(key, default): the default only replaces a missing key
Get(s, default) == IF s.k = "absent" THEN Num(default) ELSE s

MissingKey == "<absent>"
\* metadata.get('name', 'Unknown')
MetaGet(s) == IF s = MissingKey THEN "Unknown" ELSE s

----------------------------------------------------------------------------
(* Input domains.  Prices range over a missing key, null, a non-numeric    *)
(* string and numbers around the two thresholds; amount and decimals are  *)
(* a number or a missing key.                                             *)

\* A well-formed fungible item with priced token_info
Priced(nm, sym, price) ==
    [k |-> "dict", content |-> "meta", name |-> nm, symbol |-> sym,
     interface |-> "FungibleToken", token_info |-> "dict",
     amount |-> Num(5000), decimals |-> Num(3),
     price_info |-> "dict", total_price |-> price]

ItemPrices == {Absent, Null, Str, Num(50), Num(51), Num(100), Num(19900)}

Items ==
    \* priced fungible tokens, with and without metadata
    { Priced("USD Coin", "USDC", p) : p \in ItemPrices }
    \cup { [Priced(MissingKey, MissingKey, p) EXCEPT !.content = c] :
             p \in {Num(50), Num(51), Num(19900)}, c \in {"absent", "nometa"} }
    \* metadata without name/symbol
    \cup { Priced(MissingKey, MissingKey, Num(51)) }
    \* interface missing or not the fungible marker, price data present
    \cup { [Priced("Mad Lad", "MAD", Num(19900)) EXCEPT !.interface = i] :
             i \in {MissingKey, "V1_NFT", "fungibletoken"} }
    \* fungible, token_info / price_info missing or malformed
    \cup { [Priced("USD Coin", "USDC", Num(19900)) EXCEPT !.token_info = t] :
             t \in {"absent", "null"} }
    \cup { [Priced("USD Coin", "USDC", Num(19900)) EXCEPT !.price_info = q] :
             q \in {"absent", "null"} }
    \cup { [Priced("USD Coin", "USDC", Num(19900)) EXCEPT !.amount = Absent,
                                                          !.decimals = Absent] }
    \* malformed item, content or metadata
    \cup { [Priced("USD Coin", "USDC", Num(19900)) EXCEPT !.k = "null"] }
    \cup { [Priced("USD Coin", "USDC", Num(19900)) EXCEPT !.content = c] :
             c \in {"null", "nullmeta"} }

Native(kind, price, amt, dec) ==
    [k |-> kind, total_price |-> price, amount |-> amt, decimals |-> dec]

NativeBalances ==
    { Native("absent", Absent, Absent, Absent), Native("null", Absent, Absent, Absent) }
    \cup { Native("dict", p, Num(2000), Num(3)) :
             p \in {Absent, Null, Str, Num(0), Num(19900), Num(30000)} }
    \cup { Native("dict", Num(30000), Absent, Absent) }

ItemLists == UNION { [1..n -> Items] : n \in 0..MaxItems }

ItemsField ==
    { [k |-> "absent", list |-> <<>>], [k |-> "null", list |-> <<>>] }
    \cup { [k |-> "list", list |-> l] : l \in ItemLists }

Payload(top, other, result, nb, its) ==
    [top |-> top, other |-> other, result |-> result, nativeBalance |-> nb, items |-> its]

NoNative == Native("absent", Absent, Absent, Absent)
NoItems == [k |-> "absent", list |-> <<>>]

\* None: what fetch_wallet_data returns on a transport error (line 82)
NoneData == Payload("null", FALSE, "absent", NoNative, NoItems)
\* {}
EmptyDict == Payload("dict", FALSE, "absent", NoNative, NoItems)
\* a JSON-RPC error object: a dict without 'result'
ErrorDict == Payload("dict", TRUE, "absent", NoNative, NoItems)
\* a JSON number
NumberData == Payload("num", FALSE, "absent", NoNative, NoItems)
\* {"result": null}
NullResult == Payload("dict", TRUE, "null", NoNative, NoItems)

Payloads ==
    { NoneData, EmptyDict, ErrorDict, NumberData, NullResult }
    \cup { Payload("dict", TRUE, "dict", nb, its) : nb \in NativeBalances, its \in ItemsField }

----------------------------------------------------------------------------
(* extract_portfolio_info, lines 86-139 *)

\* Python truthiness of the payload (lines 87, 156)
Truthy(d) == \/ d.top = "num"
             \/ d.top = "dict" /\ (d.other \/ d.result # "absent")

Raise == [raised |-> TRUE, rows |-> <<>>]
Ok(rows) == [raised |-> FALSE, rows |-> rows]

Asset(nm, sym, price, amt, dec) ==
    [name |-> nm, symbol |-> sym, total_price_usd |-> price, amount |-> amt, decimals |-> dec]

\* lines 93-101
NativeRow(nb) ==
    Asset("Solana", "SOL", Get(nb.total_price, 0), Get(nb.amount, 0),
          Get(nb.decimals, NativeDefaultDecimals))

HasMetadata(item) == item.content \in {"meta", "nullmeta"}

\* lines 107-108, 113-116
ItemName(item) == IF HasMetadata(item) THEN MetaGet(item.name) ELSE "Unknown"
ItemSymbol(item) == IF HasMetadata(item) THEN MetaGet(item.symbol) ELSE "Unknown"

\* Mutant: the interface tag is not checked
IsFungibleAnyInterface(item) == TRUE

\* line 119
IsFungible(item) == item.interface = "FungibleToken"

\* line 120
HasTokenInfo(item) == IsFungible(item) /\ item.token_info # "absent"

\* lines 110-111, 122-123
ItemAmount(item) == IF HasTokenInfo(item) THEN Get(item.amount, 0) ELSE Num(0)
ItemDecimals(item) == IF HasTokenInfo(item) THEN Get(item.decimals, 0) ELSE Num(0)

\* lines 109, 125-127
ItemTotalPrice(item) ==
    IF HasTokenInfo(item) /\ item.price_info # "absent"
    THEN Get(item.total_price, 0)
    ELSE Num(0)

\* Mutant: the dust boundary is taken as >=
PassesDustInclusive(price) == price.k = "num" /\ price.v >= DustThreshold

\* line 130: total_price is not None and total_price > 0.5
PassesDust(price) == price.k = "num" /\ price.v > DustThreshold

\* The TypeError / AttributeError the item's statements raise on a value of the
\* wrong type: 'content' in None (113), 'metadata' in None (113), None.get (115,
\* 122, 127), str > float (130)
ItemRaises(item) ==
    \/ item.k = "null"
    \/ item.content \in {"null", "nullmeta"}
    \/ IsFungible(item) /\ item.token_info = "null"
    \/ HasTokenInfo(item) /\ item.price_info = "null"
    \/ ItemTotalPrice(item).k = "str"

\* Mutant: an item whose symbol is already in the portfolio is dropped
RECURSIVE ProcessItemsDedup(_, _)
ProcessItemsDedup(items, acc) ==
    IF items = <<>> THEN Ok(acc)
    ELSE LET item == Head(items) IN
         IF ItemRaises(item) THEN Raise
         ELSE ProcessItemsDedup(Tail(items),
                  IF /\ PassesDust(ItemTotalPrice(item))
                     /\ \A j \in 1..Len(acc) : acc[j].symbol # ItemSymbol(item)
                  THEN Append(acc, Asset(ItemName(item), ItemSymbol(item),
                                         ItemTotalPrice(item), ItemAmount(item),
                                         ItemDecimals(item)))
                  ELSE acc)

\* lines 105-137: the loop over result.items
RECURSIVE ProcessItems(_, _)
ProcessItems(items, acc) ==
    IF items = <<>> THEN Ok(acc)
    ELSE LET item == Head(items) IN
         IF ItemRaises(item) THEN Raise
         ELSE ProcessItems(Tail(items),
                  IF PassesDust(ItemTotalPrice(item))
                  THEN Append(acc, Asset(ItemName(item), ItemSymbol(item),
                                         ItemTotalPrice(item), ItemAmount(item),
                                         ItemDecimals(item)))
                  ELSE acc)

extract_portfolio_info(d) ==
    IF ~Truthy(d) THEN Ok(<<>>)                          \* lines 87-88
    ELSE IF d.top = "num" THEN Raise                      \* 93: 'result' in 5
    ELSE IF d.result = "absent" THEN Ok(<<>>)             \* 93, 104 both false
    ELSE IF d.result = "null" THEN Raise                  \* 93: 'nativeBalance' in None
    ELSE IF d.nativeBalance.k = "null" THEN Raise         \* 98: None.get
    ELSE IF d.items.k = "null" THEN Raise                 \* 105: for item in None
    ELSE ProcessItems(d.items.list,
                      IF d.nativeBalance.k = "dict"
                      THEN <<NativeRow(d.nativeBalance)>>
                      ELSE <<>>)
----------------------------------------------------------------------------
(* Aggregation and chart bucketing, lines 161-218.  pandas: a column of     *)
(* numbers and None is float64 with NaN for None; a column holding only    *)
(* None, or any string, has dtype object.                                  *)

IsNum(s) == s.k = "num"

HasStr(rows) == \E i \in 1..Len(rows) : rows[i].total_price_usd.k = "str"
OnlyNull(rows) == \A i \in 1..Len(rows) : rows[i].total_price_usd.k = "null"

\* line 164: df['total_price_usd'].sum(), NaN/None skipped
RECURSIVE SumValues(_)
SumValues(rows) ==
    IF rows = <<>> THEN 0
    ELSE (IF IsNum(Head(rows).total_price_usd) THEN Head(rows).total_price_usd.v ELSE 0)
         + SumValues(Tail(rows))

RECURSIVE Pow10(_)
Pow10(n) == IF n = 0 THEN 1 ELSE 10 * Pow10(n - 1)

\* line 177: f"{float(amount) / 10 ** decimals:,.4f}", as a count of 1/10000 units
\* (round half to even, as the format does on an exactly representable value)
FormatAmount(amount, decimals) ==
    LET q == amount * AmountScale
        den == Pow10(decimals)
        fl == q \div den
        rem == q % den
    IN IF 2 * rem > den \/ (2 * rem = den /\ fl % 2 = 1) THEN fl + 1 ELSE fl

\* Mutant: the chart threshold is taken as <=
IsSmallInclusive(row, total) ==
    IsNum(row.total_price_usd) /\ ChartDivisor * row.total_price_usd.v <= total

\* line 197-198: value < total * 0.005; NaN compares false
IsSmall(row, total) ==
    IsNum(row.total_price_usd) /\ ChartDivisor * row.total_price_usd.v < total

\* line 207: value >= total * 0.005; NaN compares false
IsLarge(row, total) ==
    IsNum(row.total_price_usd) /\ ChartDivisor * row.total_price_usd.v >= total

\* lines 196-208
ChartBuckets(rows, total) ==
    LET small == SelectSeq(rows, LAMBDA r : IsSmall(r, total))
        large == SelectSeq(rows, LAMBDA r : IsLarge(r, total))
    IN IF small # <<>>
       THEN Append(large, Asset("Others", "VARIOUS", Num(SumValues(small)), Null, Null))
       ELSE rows

----------------------------------------------------------------------------
(* The script run *)

NoKey == ""
WalletInputs == {"", "W1", "W2"}
DefaultWallet == "W1"
ApiKeys == {"ENVKEY", "SECRETKEY"}
CacheKeys == (WalletInputs \ {""}) \X ApiKeys

NoEntry == [present |-> FALSE, value |-> NoneData, at |-> 0]
Entry(value, t) == [present |-> TRUE, value |-> value, at |-> t]
EmptyCache == [key \in CacheKeys |-> NoEntry]

\* ttl=300 (line 56): an entry answers until it is Ttl seconds old
Live(entry, t) == entry.present /\ t - entry.at < Ttl

\* Mutant: the refresh click leaves the memo as it is
ClearNever(click, c) == c

\* lines 46-47
ClearOnRefresh(click, c) == IF click THEN EmptyCache ELSE c

\* lines 28-32
LookupKey(env, sec, hasSec) ==
    IF env = NoKey /\ hasSec THEN sec ELSE env

\* Upstream answers used by the full script run: a transport failure (None) and
\* a few payloads of each kind
SolOnly == Payload("dict", TRUE, "dict", Native("dict", Num(30000), Num(2000), Num(3)), NoItems)
SolAndTokens ==
    Payload("dict", TRUE, "dict", Native("dict", Num(0), Num(2000), Num(3)),
            [k |-> "list", list |-> << Priced("USD Coin", "USDC", Num(19900)),
                                       Priced("Bonk", "BONK", Num(50)) >>])
Responses == { NoneData, EmptyDict, ErrorDict, NullResult, SolOnly, SolAndTokens }

FreshRun ==
    /\ api_key = NoKey
    /\ contacted = FALSE
    /\ data = NoneData
    /\ portfolio = <<>>
    /\ total_portfolio_value = 0
    /\ asset_count = 0
    /\ display_rows = <<>>
    /\ plot_df = <<>>
    /\ rendered = {}
    /\ exception = "none"

Init ==
    /\ pc = "main"
    /\ wallet_address = DefaultWallet
    /\ refresh_button = FALSE
    /\ environ \in {NoKey, "ENVKEY"}
    /\ secrets \in {NoKey, "SECRETKEY"}
    /\ has_secrets \in BOOLEAN
    /\ cache = EmptyCache
    /\ now = 0
    /\ FreshRun

\* A user interaction reruns the script from the top: lines 41-47
Rerun ==
    /\ pc \in {"done", "stopped", "crashed"}
    /\ \E addr \in WalletInputs, click \in BOOLEAN :
         /\ wallet_address' = addr
         /\ refresh_button' = click
         /\ cache' = ClearOnRefresh(click, cache)
    /\ pc' = "main"
    /\ api_key' = NoKey
    /\ contacted' = FALSE
    /\ data' = NoneData
    /\ portfolio' = <<>>
    /\ total_portfolio_value' = 0
    /\ asset_count' = 0
    /\ display_rows' = <<>>
    /\ plot_df' = <<>>
    /\ rendered' = {}
    /\ exception' = "none"
    /\ UNCHANGED <<environ, secrets, has_secrets, now>>

\* lines 146, 224-225
NoAddress ==
    /\ pc = "main"
    /\ wallet_address = ""
    /\ rendered' = rendered \cup {"info"}
    /\ pc' = "done"
    /\ UNCHANGED <<exception, wallet_address, refresh_button, environ, secrets, has_secrets, api_key,
                   cache, now, contacted, data, portfolio, total_portfolio_value,
                   asset_count, display_rows, plot_df>>

\* Mutant: a missing key is reported but the run goes on to the fetch
GetApiKeyNoStop ==
    /\ pc = "main"
    /\ wallet_address # ""
    /\ LET key == LookupKey(environ, secrets, has_secrets) IN
         /\ rendered' = IF key = NoKey THEN rendered \cup {"error_config"} ELSE rendered
         /\ api_key' = key
         /\ pc' = "fetch"
    /\ UNCHANGED <<exception, wallet_address, refresh_button, environ, secrets, has_secrets,
                   cache, now, contacted, data, portfolio, total_portfolio_value,
                   asset_count, display_rows, plot_df>>

\* lines 26-38, 148
GetApiKey ==
    /\ pc = "main"
    /\ wallet_address # ""
    /\ LET key == LookupKey(environ, secrets, has_secrets) IN
         IF key = NoKey
         THEN /\ rendered' = rendered \cup {"error_config"}
              /\ pc' = "stopped"
              /\ UNCHANGED api_key
         ELSE /\ api_key' = key
              /\ pc' = "fetch"
              /\ UNCHANGED rendered
    /\ UNCHANGED <<exception, wallet_address, refresh_button, environ, secrets, has_secrets,
                   cache, now, contacted, data, portfolio, total_portfolio_value,
                   asset_count, display_rows, plot_df>>

\* Mutant: a None return is not kept
MemoizeSuccessOnly(c, key, value, t) ==
    IF value = NoneData THEN c ELSE [c EXCEPT ![key] = Entry(value, t)]

\* What the memo keeps of a call's return value (line 56): everything, None included
Memoize(c, key, value, t) == [c EXCEPT ![key] = Entry(value, t)]

\* lines 56-82, 150-154: the memoized fetch_wallet_data
Fetch ==
    /\ pc = "fetch"
    /\ LET key == <<wallet_address, api_key>> IN
         IF Live(cache[key], now)
         THEN /\ data' = cache[key].value
              /\ UNCHANGED <<cache, contacted>>
         ELSE \E r \in Responses :
                /\ data' = r
                /\ cache' = Memoize(cache, key, r, now)
                /\ contacted' = TRUE
    \* line 81: st.error, replayed by the memo on a hit
    /\ rendered' = IF data' = NoneData THEN rendered \cup {"error_request"} ELSE rendered
    /\ pc' = "data"
    /\ UNCHANGED <<exception, wallet_address, refresh_button, environ, secrets, has_secrets, api_key,
                   now, portfolio, total_portfolio_value, asset_count, display_rows,
                   plot_df>>

\* lines 156-159, 220-223
Extract ==
    /\ pc = "data"
    /\ IF ~Truthy(data)
       THEN /\ rendered' = rendered \cup {"error_fetch"}
            /\ pc' = "done"
            /\ UNCHANGED <<portfolio, exception>>
       ELSE LET r == extract_portfolio_info(data) IN
            IF r.raised
            THEN /\ rendered' = rendered \cup {"exception"}
                 /\ exception' = "extract_portfolio_info"
                 /\ pc' = "crashed"
                 /\ UNCHANGED portfolio
            ELSE /\ portfolio' = r.rows
                 /\ UNCHANGED exception
                 /\ IF r.rows = <<>>
                    THEN rendered' = rendered \cup {"warning"} /\ pc' = "done"
                    ELSE rendered' = rendered /\ pc' = "aggregate"
    /\ UNCHANGED <<wallet_address, refresh_button, environ, secrets, has_secrets, api_key,
                   cache, now, contacted, data, total_portfolio_value, asset_count,
                   display_rows, plot_df>>

\* Mutant: the first row is left out of the total
TotalValueWithoutFirst(rows) == SumValues(Tail(rows))

\* line 164
TotalValue(rows) == SumValues(rows)

\* lines 161-171
Aggregate ==
    /\ pc = "aggregate"
    /\ IF HasStr(portfolio)
       THEN \* str + float (164) or a string formatted with ",.2f" (169)
            /\ rendered' = rendered \cup {"exception"}
            /\ exception' = "total_portfolio_value"
            /\ pc' = "crashed"
            /\ UNCHANGED <<total_portfolio_value, asset_count>>
       ELSE /\ UNCHANGED exception
            /\ total_portfolio_value' = TotalValue(portfolio)
            /\ asset_count' = Len(portfolio)
            /\ rendered' = rendered \cup {"metric_total", "metric_count"}
            /\ pc' = "table"
    /\ UNCHANGED <<wallet_address, refresh_button, environ, secrets, has_secrets, api_key,
                   cache, now, contacted, data, portfolio, display_rows, plot_df>>

\* lines 174-191
Table ==
    /\ pc = "table"
    /\ IF OnlyNull(portfolio)
       THEN \* 175: None formatted with ",.2f"
            /\ rendered' = rendered \cup {"exception"}
            /\ exception' = "display_df"
            /\ pc' = "crashed"
            /\ UNCHANGED display_rows
       ELSE /\ UNCHANGED exception
            /\ display_rows' = [i \in 1..Len(portfolio) |->
                                  FormatAmount(portfolio[i].amount.v, portfolio[i].decimals.v)]
            /\ rendered' = rendered \cup {"table"}
            /\ pc' = "chart"
    /\ UNCHANGED <<wallet_address, refresh_button, environ, secrets, has_secrets, api_key,
                   cache, now, contacted, data, portfolio, total_portfolio_value,
                   asset_count, plot_df>>

\* lines 194-218
Chart ==
    /\ pc = "chart"
    /\ plot_df' = ChartBuckets(portfolio, total_portfolio_value)
    /\ rendered' = rendered \cup {"chart"}
    /\ pc' = "done"
    /\ UNCHANGED <<exception, wallet_address, refresh_button, environ, secrets, has_secrets, api_key,
                   cache, now, contacted, data, portfolio, total_portfolio_value,
                   asset_count, display_rows>>

\* Time passes
Tick ==
    /\ now + TickStep <= MaxClock
    /\ now' = now + TickStep
    /\ UNCHANGED <<pc, wallet_address, refresh_button, environ, secrets, has_secrets,
                   api_key, cache, contacted, data, portfolio, total_portfolio_value,
                   asset_count, display_rows, plot_df, rendered, exception>>

Next ==
    \/ Rerun
    \/ NoAddress
    \/ GetApiKey
    \/ Fetch
    \/ Extract
    \/ Aggregate
    \/ Table
    \/ Chart
    \/ Tick

Spec == Init /\ [][Next]_vars

\* Normalization and aggregation on their own: the run stands at line 156 holding
\* any payload of the input domain, just fetched
PipelineInit ==
    /\ pc = "data"
    /\ wallet_address = DefaultWallet
    /\ refresh_button = FALSE
    /\ environ = "ENVKEY"
    /\ secrets = NoKey
    /\ has_secrets = TRUE
    /\ api_key = "ENVKEY"
    /\ data \in Payloads
    /\ cache = Memoize(EmptyCache, <<DefaultWallet, "ENVKEY">>, data, 0)
    /\ now = 0
    /\ contacted = TRUE
    /\ portfolio = <<>>
    /\ total_portfolio_value = 0
    /\ asset_count = 0
    /\ display_rows = <<>>
    /\ plot_df = <<>>
    /\ rendered = IF data = NoneData THEN {"error_request"} ELSE {}
    /\ exception = "none"

PipelineNext ==
    \/ Extract
    \/ Aggregate
    \/ Table
    \/ Chart

PipelineSpec == PipelineInit /\ [][PipelineNext]_vars
----------------------------------------------------------------------------
(* Properties of normalization *)

\* extract_portfolio_info was called on data and returned
Extracted == pc # "data" /\ Truthy(data) /\ exception # "extract_portfolio_info"

\* result.items as a sequence (empty when the field is missing)
InputItems == IF data.items.k = "list" THEN data.items.list ELSE <<>>

\* 1 when the normalized sequence starts with the native row, else 0
NativeOffset == IF data.nativeBalance.k = "dict" THEN 1 ELSE 0

\* The row an item yields when it is kept
RowOf(item) ==
    Asset(ItemName(item), ItemSymbol(item), ItemTotalPrice(item), ItemAmount(item),
          ItemDecimals(item))

\* The extracted total value is not null and strictly greater than 0.5
AboveDust(item) ==
    LET p == ItemTotalPrice(item) IN p.k = "num" /\ p.v > DustThreshold

\* C1: extract_portfolio_info never raises, whatever is missing or malformed in
\* the payload, and returns the empty sequence when the payload has no result.
C1_FailSoft ==
    /\ exception # "extract_portfolio_info"
    /\ (pc # "data" /\ data.result = "absent") => portfolio = <<>>

C3_Shape ==
    Extracted =>
        LET kept == SelectSeq(InputItems, AboveDust) IN
        /\ Len(portfolio) = NativeOffset + Len(kept)
        /\ NativeOffset = 1 =>
             /\ portfolio[1].name = "Solana"
             /\ portfolio[1].symbol = "SOL"
             /\ portfolio[1].total_price_usd =
                  (IF data.nativeBalance.total_price = Absent
                   THEN Num(0) ELSE data.nativeBalance.total_price)
        /\ \A j \in 1..Len(kept) : portfolio[NativeOffset + j] = RowOf(kept[j])

\* A native balance worth 0 leads two rows of the same symbol
C3_Witness ==
    /\ Extracted
    /\ data.nativeBalance.k = "dict"
    /\ data.nativeBalance.total_price = Num(0)
    /\ Len(portfolio) = 3
    /\ portfolio[1].symbol = "SOL"
    /\ portfolio[2].symbol = portfolio[3].symbol
    /\ portfolio[2].total_price_usd # portfolio[3].total_price_usd

\* The payload with every non-numeric string scalar taken as a missing key
StrAsAbsent(sc) == IF sc.k = "str" THEN Absent ELSE sc
TypesRepaired(d) ==
    [d EXCEPT !.nativeBalance.total_price = StrAsAbsent(@),
              !.items.list = [i \in 1..Len(@) |->
                                [@[i] EXCEPT !.total_price = StrAsAbsent(@)]]]

\* C6: a price of the wrong type is treated as absent: normalization yields what
\* it yields for the payload without that field, and raises no type error.
C6_WrongTypeIsAbsent ==
    (pc # "data" /\ Truthy(data) /\ ~extract_portfolio_info(TypesRepaired(data)).raised) =>
        /\ exception # "extract_portfolio_info"
        /\ portfolio = extract_portfolio_info(TypesRepaired(data)).rows

\* An entry that is not a fungible token, or has no token_info or no price_info
Unpriced(item) ==
    \/ item.interface # "FungibleToken"
    \/ item.token_info = "absent"
    \/ item.price_info = "absent"

\* C9: an entry whose interface is missing or not exactly "FungibleToken", or that
\* has no token_info or no price_info, keeps the value 0 and is never in the
\* normalized output: the rows after the native row are at most as many as the
\* other entries, and none when every entry is of that kind.
C9_NonFungibleExcluded ==
    Extracted =>
        /\ \A i \in 1..Len(InputItems) :
             Unpriced(InputItems[i]) => ItemTotalPrice(InputItems[i]) = Num(0)
        /\ Len(portfolio) - NativeOffset
             <= Cardinality({ i \in 1..Len(InputItems) : ~Unpriced(InputItems[i]) })

\* A non-fungible entry carrying a price of 300 next to a kept token
C9_Witness ==
    /\ Extracted
    /\ Len(InputItems) = 2
    /\ InputItems[1].interface = "V1_NFT"
    /\ InputItems[1].total_price = Num(19900)
    /\ ~Unpriced(InputItems[2])
    /\ Len(portfolio) = NativeOffset + 1
----------------------------------------------------------------------------
(* Properties of aggregation and bucketing *)

RECURSIVE SumFirst(_, _)
\* The sum of the numeric values of rows[1..n]
SumFirst(rows, n) ==
    IF n = 0 THEN 0
    ELSE SumFirst(rows, n - 1)
         + (IF rows[n].total_price_usd.k = "num" THEN rows[n].total_price_usd.v ELSE 0)

\* The orderings of a sequence
Orderings(seq) ==
    { [i \in 1..Len(seq) |-> seq[f[i]]] :
        f \in { g \in [1..Len(seq) -> 1..Len(seq)] :
                  \A a, b \in 1..Len(seq) : g[a] = g[b] => a = b } }

\* C4: with threshold = total * 0.005, the chart buckets are the assets valued at
\* least the threshold, in their order, followed by one "Others"/"VARIOUS" bucket
\* holding the sum of the assets strictly below it; that bucket exists iff some
\* asset is strictly below the threshold, and otherwise the buckets are the asset
\* list unchanged.
C4_ChartBuckets ==
    "chart" \in rendered =>
        LET total == total_portfolio_value
            below(r) == r.total_price_usd.k = "num" /\ ChartDivisor * r.total_price_usd.v < total
            atLeast(r) == r.total_price_usd.k = "num" /\ ChartDivisor * r.total_price_usd.v >= total
            small == SelectSeq(portfolio, below)
            large == SelectSeq(portfolio, atLeast)
            others == { j \in 1..Len(plot_df) : plot_df[j].name = "Others" }
        IN /\ (others # {}) <=> (small # <<>>)
           /\ small = <<>> => plot_df = portfolio
           /\ small # <<>> =>
                /\ Len(plot_df) = Len(large) + 1
                /\ SubSeq(plot_df, 1, Len(large)) = large
                /\ others = {Len(plot_df)}
                /\ plot_df[Len(plot_df)].symbol = "VARIOUS"
                /\ plot_df[Len(plot_df)].total_price_usd = Num(SumFirst(small, Len(small)))
           /\ total = 0 => plot_df = portfolio

\* Of a total of 200.00 the token worth 1.00, exactly the threshold, stays next to
\* the token worth 199.00, and the native row worth 0 goes to "Others"
C4_Witness ==
    /\ "chart" \in rendered
    /\ Len(portfolio) = 3
    /\ total_portfolio_value = 20000
    /\ portfolio[1].total_price_usd = Num(0)
    /\ portfolio[2].total_price_usd = Num(100)
    /\ Len(plot_df) = 3
    /\ plot_df[1] = portfolio[2]
    /\ plot_df[3].name = "Others"

\* C5: the reported total is the sum of the values of all rows of the normalized
\* sequence, the asset count is its length, and the total is the same for every
\* ordering of result.items.
C5_Totals ==
    "metric_total" \in rendered =>
        /\ total_portfolio_value = SumFirst(portfolio, Len(portfolio))
        /\ asset_count = Len(portfolio)
        /\ \A q \in Orderings(InputItems) :
             LET r == extract_portfolio_info([data EXCEPT !.items.list = q]) IN
             ~r.raised /\ TotalValue(r.rows) = total_portfolio_value

\* The native row and two tokens of different value were summed
C5_Witness ==
    /\ "metric_total" \in rendered
    /\ asset_count = 3
    /\ portfolio[1].symbol = "SOL"
    /\ portfolio[2].total_price_usd # portfolio[3].total_price_usd
    /\ total_portfolio_value = 30000 + 51 + 100

----------------------------------------------------------------------------
(* Properties of the script run *)

\* The memo key of the run's fetch
FetchKey == <<wallet_address, api_key>>

\* The run has passed the fetch of line 151
Fetched == api_key # NoKey /\ pc # "fetch"

Results == {"metric_total", "metric_count", "table", "chart"}

\* C7: a run started by "Refresh Data" empties the whole memo before its fetch,
\* so that fetch contacts the upstream source and returns what it just got.
C7_RefreshBeforeFetch ==
    refresh_button =>
        /\ pc \in {"main", "fetch"} => cache = EmptyCache
        /\ Fetched => /\ contacted
                      /\ cache[FetchKey].present
                      /\ cache[FetchKey].value = data

\* A refreshed run has fetched a portfolio from upstream, later than time 0
C7_Witness ==
    /\ refresh_button
    /\ pc = "data"
    /\ contacted
    /\ data = SolAndTokens
    /\ now > 0

\* No credential in the environment nor in the secret store
NoCredential == environ = NoKey /\ (~has_secrets \/ secrets = NoKey)

\* C8: without a credential (environment first, then secrets) the run stops with
\* a configuration error before any fetch; after a failed fetch it shows an error
\* and raises nothing; in both cases no metric, table or chart is rendered.
C8_ErrorsAreTerminal ==
    /\ NoCredential =>
         /\ ~contacted
         /\ pc \in {"main", "stopped", "done"}
         /\ rendered \cap Results = {}
         /\ pc = "stopped" => "error_config" \in rendered
    /\ api_key # NoKey => api_key = (IF environ # NoKey THEN environ ELSE secrets)
    /\ (Fetched /\ data = NoneData) =>
         /\ rendered \cap Results = {}
         /\ exception = "none"
         /\ pc \in {"data", "done"}
         /\ pc = "done" => "error_fetch" \in rendered

\* The run stopped on the missing credential
C8_Witness ==
    /\ pc = "stopped"
    /\ NoCredential
    /\ has_secrets
    /\ rendered = {"error_config"}

\* C10: a failed fetch (None) is kept in the memo under the run's key; while that
\* entry is live a fetch for the key issues no upstream request, returns None
\* again and the run ends in the fetch-failure state; a live entry goes away only
\* by a refresh.
C10_FailureMemoized ==
    /\ []((pc = "data" /\ contacted /\ data = NoneData) =>
            (cache[FetchKey].present /\ cache[FetchKey].value = NoneData))
    /\ [][(pc = "fetch" /\ pc' = "data" /\ Live(cache[FetchKey], now)
             /\ cache[FetchKey].value = NoneData) =>
            (~contacted' /\ data' = NoneData /\ cache' = cache)]_vars
    /\ []((pc = "done" /\ api_key # NoKey /\ data = NoneData) => "error_fetch" \in rendered)
    /\ [][\A key \in CacheKeys :
            (Live(cache[key], now) /\ cache'[key] # cache[key]) =>
               (refresh_button' /\ pc' = "main")]_vars

\* A run without refresh ended in the failure state without contacting upstream
C10_Witness ==
    /\ pc = "done"
    /\ api_key # NoKey
    /\ ~refresh_button
    /\ ~contacted
    /\ data = NoneData
    /\ "error_fetch" \in rendered

====
